---- MODULE Spec2Model ----
(***************************************************************************)
(* A model of bot.py: the text normaliser, the semantic detectors, the     *)
(* per-(guild, channel, user) buffer of recent messages and the on_message *)
(* handler with its suspension points.                                     *)
(*                                                                         *)
(* A Python str is a TLA+ string; its i-th character is SubSeq(s, i, i).   *)
(* A regular expression is a small syntax tree (records) and re.search is  *)
(* decided by following sets of positions through the tree, which gives    *)
(* the same yes/no answer as Python's backtracking for patterns without    *)
(* back-references (none of bot.py's patterns has one).                    *)
(***************************************************************************)
EXTENDS Integers, Sequences, FiniteSets, TLC

\* ------------------------------------------------------------------ text

Ch(s, i) == SubSeq(s, i, i)

LowerLetters ==
  {"a","b","c","d","e","f","g","h","i","j","k","l","m",
   "n","o","p","q","r","s","t","u","v","w","x","y","z"}

Digits == {"0","1","2","3","4","5","6","7","8","9"}

\* str.lower() on the characters of the model's alphabet
UpperToLower ==
  [c \in {"A","B","C","D","E","F","G","H","I","J","K","L","M",
          "N","O","P","Q","R","S","T","U","V","W","X","Y","Z"} |->
     CASE c = "A" -> "a" [] c = "B" -> "b" [] c = "C" -> "c" [] c = "D" -> "d"
       [] c = "E" -> "e" [] c = "F" -> "f" [] c = "G" -> "g" [] c = "H" -> "h"
       [] c = "I" -> "i" [] c = "J" -> "j" [] c = "K" -> "k" [] c = "L" -> "l"
       [] c = "M" -> "m" [] c = "N" -> "n" [] c = "O" -> "o" [] c = "P" -> "p"
       [] c = "Q" -> "q" [] c = "R" -> "r" [] c = "S" -> "s" [] c = "T" -> "t"
       [] c = "U" -> "u" [] c = "V" -> "v" [] c = "W" -> "w" [] c = "X" -> "x"
       [] c = "Y" -> "y" [] c = "Z" -> "z"]

\* the characters \w matches in the texts of the model (letters, digits, _)
WordChars == LowerLetters \cup DOMAIN UpperToLower \cup Digits \cup {"_"}

\* the characters \s matches
SpaceChars == {" ", "\t", "\n", "\r"}

\* s with every character replaced by f[c] where f is defined, kept otherwise
RECURSIVE MapChars(_, _)
MapChars(s, f) ==
  IF s = "" THEN ""
  ELSE (IF Head(s) \in DOMAIN f THEN f[Head(s)] ELSE Head(s)) \o MapChars(Tail(s), f)

\* the words of s cut at the separator character sep (str.split(sep))
RECURSIVE SplitOn(_, _, _)
SplitOn(s, sep, cur) ==
  IF s = "" THEN <<cur>>
  ELSE IF Head(s) = sep THEN <<cur>> \o SplitOn(Tail(s), sep, "")
  ELSE SplitOn(Tail(s), sep, cur \o Head(s))

\* str.strip()
RECURSIVE LStrip(_)
LStrip(s) == IF s # "" /\ Head(s) \in SpaceChars THEN LStrip(Tail(s)) ELSE s

RECURSIVE RStrip(_)
RStrip(s) ==
  IF s # "" /\ Ch(s, Len(s)) \in SpaceChars THEN RStrip(SubSeq(s, 1, Len(s) - 1)) ELSE s

Strip(s) == RStrip(LStrip(s))

\* sep.join(parts)
RECURSIVE Join(_, _)
Join(parts, sep) ==
  IF parts = <<>> THEN ""
  ELSE IF Len(parts) = 1 THEN parts[1]
  ELSE parts[1] \o sep \o Join(Tail(parts), sep)

\* Python's  needle in hay
IsSubstring(needle, hay) ==
  \E i \in 0..(Len(hay) - Len(needle)) : SubSeq(hay, i + 1, i + Len(needle)) = needle

\* ----------------------------------------------------------- regular expressions

Lit(s) == [k |-> "lit", s |-> s]
AnyOf(cs) == [k |-> "cls", cs |-> cs]
NoneOf(cs) == [k |-> "ncls", cs |-> cs]
Cat(rs) == [k |-> "cat", rs |-> rs]
Alt(rs) == [k |-> "alt", rs |-> rs]
Star(r) == [k |-> "star", r |-> r]
Plus(r) == Cat(<<r, Star(r)>>)
Opt(r) == Alt(<<r, Lit("")>>)
AtLeast2(r) == Cat(<<r, r, Star(r)>>)
Wb == [k |-> "b"]
Wc == AnyOf(WordChars)
Sp == AnyOf(SpaceChars)
Words(ws) == Alt([i \in 1..Len(ws) |-> Lit(ws[i])])

\* \b at position p (between character p and character p + 1)
AtWordBoundary(t, p) ==
  (p > 0 /\ Ch(t, p) \in WordChars) # (p < Len(t) /\ Ch(t, p + 1) \in WordChars)

\* The positions where a match of r can end when it starts at a position of P.
RECURSIVE Ends(_, _, _)
RECURSIVE EndsCat(_, _, _, _)
RECURSIVE EndsStar(_, _, _, _)

Ends(r, t, P) ==
  CASE r.k = "lit" ->
         {p + Len(r.s) : p \in {q \in P : /\ q + Len(r.s) <= Len(t)
                                          /\ SubSeq(t, q + 1, q + Len(r.s)) = r.s}}
    [] r.k = "lits" ->
         {p + Len(w) : <<p, w>> \in {x \in P \X r.ws : /\ x[1] + Len(x[2]) <= Len(t)
                                                      /\ SubSeq(t, x[1] + 1, x[1] + Len(x[2])) = x[2]}}
    [] r.k = "cls" -> {p + 1 : p \in {q \in P : q < Len(t) /\ Ch(t, q + 1) \in r.cs}}
    [] r.k = "ncls" -> {p + 1 : p \in {q \in P : q < Len(t) /\ Ch(t, q + 1) \notin r.cs}}
    [] r.k = "b" -> {p \in P : AtWordBoundary(t, p)}
    [] r.k = "cat" -> EndsCat(r.rs, 1, t, P)
    [] r.k = "alt" -> UNION {Ends(r.rs[i], t, P) : i \in 1..Len(r.rs)}
    [] r.k = "star" -> EndsStar(r.r, t, P, P)

EndsCat(rs, i, t, P) ==
  IF i > Len(rs) \/ P = {} THEN P ELSE EndsCat(rs, i + 1, t, Ends(rs[i], t, P))

EndsStar(r, t, acc, frontier) ==
  IF frontier = {} THEN acc
  ELSE LET new == Ends(r, t, frontier) \ acc
       IN  EndsStar(r, t, acc \cup new, new)

\* re.search(pattern, text) is not None
re_search(r, t) == Ends(r, t, 0..Len(t)) # {}

\* re.sub(r"[^...]", repl, s): every character outside keep becomes repl
RECURSIVE SubEachOutside(_, _, _)
SubEachOutside(keep, repl, s) ==
  IF s = "" THEN ""
  ELSE (IF Head(s) \in keep THEN Head(s) ELSE repl) \o SubEachOutside(keep, repl, Tail(s))

\* re.sub(r"[class]+", repl, s): every maximal run of characters of cs becomes repl
RECURSIVE SubRuns(_, _, _, _)
SubRuns(cs, repl, s, inRun) ==
  IF s = "" THEN ""
  ELSE IF Head(s) \in cs
       THEN (IF inRun THEN "" ELSE repl) \o SubRuns(cs, repl, Tail(s), TRUE)
       ELSE Head(s) \o SubRuns(cs, repl, Tail(s), FALSE)

\* ------------------------------------------------------------ normalisation

\* a table whose image of "3" is itself a key of the table
LEET_MAP_chained ==
  [c \in {"0","1","!","3","4","@","$","5","7","8","+","|"} |->
     CASE c = "0" -> "o" [] c = "1" -> "i" [] c = "!" -> "i" [] c = "3" -> "0"
       [] c = "4" -> "a" [] c = "@" -> "a" [] c = "$" -> "s" [] c = "5" -> "s"
       [] c = "7" -> "t" [] c = "8" -> "b" [] c = "+" -> "t" [] c = "|" -> "l"]

LEET_MAP ==
  [c \in {"0","1","!","3","4","@","$","5","7","8","+","|"} |->
     CASE c = "0" -> "o" [] c = "1" -> "i" [] c = "!" -> "i" [] c = "3" -> "e"
       [] c = "4" -> "a" [] c = "@" -> "a" [] c = "$" -> "s" [] c = "5" -> "s"
       [] c = "7" -> "t" [] c = "8" -> "b" [] c = "+" -> "t" [] c = "|" -> "l"]

\* the entries of UNICODE_FOLD_MAP whose keys are Latin-1 letters
UNI_TRANS ==
  [c \in {"ß", "þ", "ð", "ø", "æ", "å", "ç", "ñ", "ý"} |->
     CASE c = "ß" -> "ss" [] c = "þ" -> "th" [] c = "ð" -> "d" [] c = "ø" -> "o"
       [] c = "æ" -> "ae" [] c = "å" -> "a" [] c = "ç" -> "c" [] c = "ñ" -> "n"
       [] c = "ý" -> "y"]

\* NFKD decomposition followed by the removal of the combining marks (category
\* Mn), for the accented Latin-1 letters of the model's alphabet; every other
\* character of the alphabet has no decomposition and is kept
strip_accents(text) ==
  MapChars(text,
    [c \in {"é", "è", "á", "ñ", "ç", "å", "ý", "ü", "ö"} |->
       CASE c = "é" -> "e" [] c = "è" -> "e" [] c = "á" -> "a" [] c = "ñ" -> "n"
         [] c = "ç" -> "c" [] c = "å" -> "a" [] c = "ý" -> "y" [] c = "ü" -> "u"
         [] c = "ö" -> "o"])

normalize(text) ==
  LET lowered  == MapChars(text, UpperToLower)
      noAccent == strip_accents(lowered)
      folded   == MapChars(noAccent, UNI_TRANS)
      unleet   == MapChars(folded, LEET_MAP)
      kept     == SubEachOutside(LowerLetters \cup Digits \cup {"@"} \cup SpaceChars,
                                 " ", unleet)
      single   == SubRuns(SpaceChars, " ", kept, FALSE)
  IN  Strip(single)

has_word(norm_text, word) == re_search(Cat(<<Wb, Lit(word), Wb>>), norm_text)

\* any(has_word(norm_text, w) for w in words), as one search for \b(?:w1|...|wn)\b:
\* some w has a match of \bw\b exactly when the alternation has one
any_word(norm_text, words) ==
  re_search(Cat(<<Wb, [k |-> "lits", ws |-> words], Wb>>), norm_text)

\* ------------------------------------------------- ban list with patterns

SpPlus == Plus(Sp)
SpStar == Star(Sp)

\* "test" -> t\s*e\s*s\s*t\s*
spaced_pat(s) == Cat([i \in 1..(2 * Len(s)) |-> IF i % 2 = 1 THEN Lit(Ch(s, (i + 1) \div 2)) ELSE SpStar])

StripAll(parts) == [i \in 1..Len(parts) |-> Strip(parts[i])]

\* the compiled pattern of one item of BAN_WORDS, <<>> when its base normalises to ""
ban_pattern(item) ==
  LET is_stem   == Ch(item, Len(item)) = "*"
      base      == IF is_stem THEN SubSeq(item, 1, Len(item) - 1) ELSE item
      base_norm == normalize(base)
  IN  IF base_norm = "" THEN <<>>
      ELSE IF is_stem
           THEN <<Cat(<<Wb, spaced_pat(base_norm), Star(AnyOf(LowerLetters \cup Digits)), Wb>>)>>
           ELSE <<Cat(<<Wb, spaced_pat(base_norm), Wb>>)>>

RECURSIVE ban_patterns_of(_)
ban_patterns_of(items) ==
  IF items = <<>> THEN <<>> ELSE ban_pattern(Head(items)) \o ban_patterns_of(Tail(items))

compile_ban_patterns(raw) ==
  ban_patterns_of(StripAll(SelectSeq(SplitOn(raw, ",", ""), LAMBDA x : Strip(x) # "")))

ALWAYS_BAN == {"hoe", "hoes", "cunt", "bitch", "bitches"}

ALWAYS_PATTERNS == {Cat(<<Wb, spaced_pat(normalize(w)), Wb>>) : w \in ALWAYS_BAN}

\* ------------------------------------------------------ semantic detectors

PRONOUN_TARGETS ==
  {"you","u","ur","youre","he","she","they","him","her","them",
   "this","that","it","these","those",
   "bro","bros","dude","man","guy","guys","girl","girls","boy","boys",
   "buddy","pal","homie","sis","brother","sister","dawg"}

CHEAT_STEMS == {"cheat","cheater","cheating","cheated","cheats"}

\* a directedness that looks at the mention alone
is_directed_by_mention(norm_text, has_mention) == has_mention

is_directed(norm_text, has_mention) == has_mention \/ any_word(norm_text, PRONOUN_TARGETS)

\* the alternation without its bare  a
IsA_without_a == Alt(<<Lit("is"), Lit("s"), Lit("is a"), Lit("s a")>>)

\* (?:is|s|is a|s a|a)
IsA == Alt(<<Lit("is"), Lit("s"), Lit("is a"), Lit("s a"), Lit("a")>>)

\* \b\w{2,}\s+(?:is|s|is a|s a|a)\s+<what>\b
TokenIsA(what) == Cat(<<Wb, AtLeast2(Wc), SpPlus, IsA, SpPlus>> \o what \o <<Wb>>)

is_cheater_accusation(norm_text, has_mention) ==
  \/ re_search(TokenIsA(<<Lit("cheat"), Star(Wc)>>), norm_text)
  \/ /\ any_word(norm_text, CHEAT_STEMS)
     /\ \/ is_directed(norm_text, has_mention)
        \/ re_search(Cat(<<Wb, Lit("stop"), SpPlus, Lit("cheat"), Star(Wc), Wb>>), norm_text)
        \/ re_search(Cat(<<Wb, Alt(<<Lit("is"), Lit("are")>>), SpPlus,
                           Lit("cheat"), Star(Wc), Wb>>), norm_text)

is_bitch_insult(norm_text, has_mention) ==
  /\ \/ re_search(Cat(<<Wb, Lit("b"), Opt(Lit("i")), Lit("atch"), Opt(Lit("es")), Wb>>),
                  norm_text)
     \/ has_word(norm_text, "bitch")
     \/ has_word(norm_text, "bitches")
  /\ \/ is_directed(norm_text, has_mention)
     \/ re_search(TokenIsA(<<Lit("bitch"), Opt(Lit("es"))>>), norm_text)

is_fuck_you_super_strict(norm_text) ==
  \/ re_search(Cat(<<Wb, Lit("f"), Opt(Lit("u")), Opt(Lit("c")), Plus(Lit("k")),
                     SpStar, Lit("you"), Wb>>), norm_text)
  \/ re_search(Cat(<<Wb, Lit("f"), SpStar, Lit("you"), Wb>>), norm_text)
  \/ re_search(Cat(<<Wb, Lit("f"), SpStar, Lit("u"), Wb>>), norm_text)
  \/ re_search(Cat(<<Wb, Lit("f"), Opt(Lit("u")), Plus(Lit("h")), SpStar, Lit("u"), Wb>>),
               norm_text)
  \/ /\ re_search(Cat(<<Wb, Lit("fu"), Wb>>), norm_text)
     /\ has_word(norm_text, "you")

PLAYER_TERMS ==
  {"player","playboy","womanizer","womaniser","womanizers","womanisers",
   "fboy","fboi","fuckboy","fuckboi","manwhore"}

GIRL_WORDS == {"girl","girls","woman","women","female","females","hoe","hoes"}

QTY_WORDS == {"hella","many","every","all","lots","lot","alot","a lot"}

\* (a\s+lot\s+of|many|every|all|lots\s+of|hella)
QtyPat ==
  Alt(<<Cat(<<Lit("a"), SpPlus, Lit("lot"), SpPlus, Lit("of")>>), Lit("many"), Lit("every"),
        Lit("all"), Cat(<<Lit("lots"), SpPlus, Lit("of")>>), Lit("hella")>>)

\* (girls?|women|females?|hoes?)
GirlsPat ==
  Alt(<<Cat(<<Lit("girl"), Opt(Lit("s"))>>), Lit("women"),
        Cat(<<Lit("female"), Opt(Lit("s"))>>), Cat(<<Lit("hoe"), Opt(Lit("s"))>>)>>)

\* (s|ed|ing)?
VerbEnding == Opt(Words(<<"s", "ed", "ing">>))

is_player_implication(norm_text, has_mention) ==
  \/ /\ any_word(norm_text, PLAYER_TERMS) \/ IsSubstring("player", norm_text)
     /\ \/ is_directed(norm_text, has_mention)
        \/ re_search(TokenIsA(<<Lit("player")>>), norm_text)
  \/ /\ any_word(norm_text, QTY_WORDS)
     /\ any_word(norm_text, GIRL_WORDS)
     /\ \/ re_search(Cat(<<Wb, Words(<<"got", "has", "have">>), Wb>>), norm_text)
        \/ is_directed(norm_text, has_mention)
  \/ re_search(Cat(<<Wb, Words(<<"talk", "text", "dm", "message", "chat">>), VerbEnding,
                     SpPlus, Words(<<"to", "with">>), SpPlus, QtyPat, SpPlus, GirlsPat, Wb>>),
               norm_text)
  \/ re_search(Cat(<<Wb, Words(<<"flirt", "rizz">>), VerbEnding, SpPlus,
                     Opt(Cat(<<Lit("with"), SpPlus>>)), QtyPat, SpPlus, GirlsPat, Wb>>),
               norm_text)
  \/ /\ re_search(Cat(<<Wb, Words(<<"slide", "sliding", "slid", "slides">>), SpPlus,
                        Words(<<"in", "into">>), SpPlus, Opt(Cat(<<Plus(Wc), SpPlus>>)),
                        Lit("dm"), Opt(Lit("s")), Wb>>), norm_text)
     /\ \/ any_word(norm_text, {"everyone", "every", "all", "many", "hella"})
        \/ any_word(norm_text, GIRL_WORDS)

\* (girl|girls|woman|women|female|females)
GirlNoun == Words(<<"girl", "girls", "woman", "women", "female", "females">>)

\* (day|night|week|month)
Period == Words(<<"day", "night", "week", "month">>)

is_loyalty_implication(norm_text, has_mention) ==
  \/ re_search(Cat(<<Wb, AtLeast2(Wc), SpPlus,
                     Alt(<<Lit("lacks"), Lit("lack"), Cat(<<Lit("has"), SpPlus, Lit("no")>>),
                           Cat(<<Lit("got"), SpPlus, Lit("no")>>), Lit("no")>>),
                     SpPlus, Lit("loyalty"), Wb>>), norm_text)
  \/ re_search(Cat(<<Wb, AtLeast2(Wc), SpPlus,
                     Words(<<"is", "s", "isn t", "isnt", "ain t", "aint", "not">>),
                     SpPlus, Lit("loyal"), Wb>>), norm_text)
  \/ /\ is_directed(norm_text, has_mention)
     /\ re_search(Cat(<<Wb, Alt(<<Lit("disloyal"), Lit("unloyal"), Lit("unfaithful"),
                                  Cat(<<Lit("not"), SpPlus, Lit("faithful")>>)>>), Wb>>),
                  norm_text)
  \/ re_search(Cat(<<Wb, Words(<<"go", "goes", "going", "went", "move", "moves", "moving",
                                 "bounce", "bounces", "bouncing", "hop", "hops", "hopping",
                                 "switch", "switches", "switching", "jump", "jumps",
                                 "jumping">>),
                     SpPlus, Lit("from"), SpPlus, GirlNoun, SpPlus, Lit("to"), SpPlus,
                     GirlNoun, Wb>>), norm_text)
  \/ re_search(Cat(<<Wb, Words(<<"new", "another", "different">>), SpPlus, Lit("girl"), SpPlus,
                     Words(<<"each", "every", "per">>), SpPlus, Period, Wb>>), norm_text)
  \/ re_search(Cat(<<Wb, Words(<<"every", "each">>), SpPlus, Period, SpPlus,
                     Opt(Cat(<<Lit("a"), SpPlus>>)), Words(<<"new", "different">>), SpPlus,
                     Lit("girl"), Wb>>), norm_text)
  \/ /\ re_search(Cat(<<Wb, Words(<<"has", "got", "have">>), SpPlus,
                        Opt(Cat(<<Lit("a"), SpPlus>>)), Words(<<"roster", "rotation">>), Wb>>),
                  norm_text)
     /\ any_word(norm_text, GIRL_WORDS)

\* a combo test that is content with one word of the combo
contains_any_word(text, words) ==
  \E i \in 1..Len(words) : IsSubstring(words[i], MapChars(text, UpperToLower))

contains_all_words(text, words) ==
  \A i \in 1..Len(words) : IsSubstring(words[i], MapChars(text, UpperToLower))

\* ------------------------------------------------------------ configuration

DigitValue ==
  [c \in Digits |->
     CASE c = "0" -> 0 [] c = "1" -> 1 [] c = "2" -> 2 [] c = "3" -> 3 [] c = "4" -> 4
       [] c = "5" -> 5 [] c = "6" -> 6 [] c = "7" -> 7 [] c = "8" -> 8 [] c = "9" -> 9]

RECURSIVE DigitsValue(_, _)
DigitsValue(s, acc) ==
  IF s = "" THEN acc ELSE DigitsValue(Tail(s), 10 * acc + DigitValue[Head(s)])

\* int(s): [ok |-> FALSE] stands for ValueError
ParseInt(s) ==
  LET t      == Strip(s)
      signed == t # "" /\ Head(t) \in {"-", "+"}
      body   == IF signed THEN Tail(t) ELSE t
  IN  IF body # "" /\ \A i \in 1..Len(body) : Ch(body, i) \in Digits
      THEN [ok |-> TRUE,
            val |-> IF signed /\ Head(t) = "-" THEN 0 - DigitsValue(body, 0)
                    ELSE DigitsValue(body, 0)]
      ELSE [ok |-> FALSE, val |-> 0]

\* [w.strip().lower() for w in s.split(",") if w.strip()]
CommaWords(s) ==
  LET parts == SelectSeq(SplitOn(s, ",", ""), LAMBDA x : Strip(x) # "")
  IN  [i \in 1..Len(parts) |-> MapChars(Strip(parts[i]), UpperToLower)]

DefaultKey == "_default"

\* An environment variable that is not set is "" (os.getenv gives None, and the
\* code tests both for truth). stored is the content of config.json, <<>> (the
\* function with no key) when the file is absent or unreadable.
load_config(words_env, window_env, stored) ==
  LET default_words  == IF words_env # "" THEN CommaWords(words_env)
                        ELSE <<"chunky", "cheater">>
      default_window == IF window_env # "" /\ ParseInt(window_env).ok
                        THEN ParseInt(window_env).val ELSE 30
  IN  IF DefaultKey \in DOMAIN stored THEN stored
      ELSE stored @@ (DefaultKey :> [words |-> default_words, window |-> default_window])

\* the config dict after get_guild_cfg(guild_id); the call returns its entry g
get_guild_cfg(cfg, g) ==
  IF g \in DOMAIN cfg THEN cfg ELSE cfg @@ (g :> cfg[DefaultKey])

\* ---------------------------------------------------------------- state

VARIABLES
  now,          \* time.time(), in seconds
  BAN_WORDS,    \* the environment variable BAN_WORDS ("" when not set)
  config,       \* config: "<guild id>" or "_default" -> [words, window]
  recent_msgs,  \* recent_msgs: <<guild, channel, user>> -> the deque's items
  messages,     \* the messages delivered so far; a message's id is its index
  pc,           \* per message: where its on_message coroutine stands
  stamp,        \* per message: the handler's local now (-1 before line 336)
  verdict,      \* per message: "none" | "Ignored" | "Allow" | "DeleteCurrent" | "DeleteWindowBatch"
  check,        \* per message: which single-message check matched (1..6), else 0
  recent_items, \* per message: the recent_items handed to delete_recent_user_msgs
  todo,         \* per message: what is left of  for m in batch
  calls         \* per message: the delete requests the platform has answered, in order

vars == <<now, BAN_WORDS, config, recent_msgs, messages, pc, stamp, verdict, check,
          recent_items, todo, calls>>

MAX_RECENT == 10

NoGuild == "none"

BAN_PATTERNS == compile_ban_patterns(BAN_WORDS)

contains_banned_word(norm_text) ==
  \/ \E p \in ALWAYS_PATTERNS : re_search(p, norm_text)
  \/ \E i \in 1..Len(BAN_PATTERNS) : re_search(BAN_PATTERNS[i], norm_text)

\* a key that leaves the author out
get_recent_key_no_author(message) == <<message.guild, message.channel, "">>

get_recent_key(message) == <<message.guild, message.channel, message.author>>

\* an append to a deque without maxlen
deque_append_unbounded(dq, item) == dq \o <<item>>

\* an appendleft to the deque
deque_appendleft(dq, item) ==
  IF Len(dq) >= MAX_RECENT THEN <<item>> \o SubSeq(dq, 1, Len(dq) - 1) ELSE <<item>> \o dq

\* deque(maxlen = MAX_RECENT).append(item)
deque_append(dq, item) ==
  IF Len(dq) >= MAX_RECENT THEN Tail(dq) \o <<item>> ELSE dq \o <<item>>

\* a pruning that pops at most one expired entry
prune_one(dq, t, window) ==
  IF dq # <<>> /\ (t - dq[1].time) > window THEN Tail(dq) ELSE dq

\* a pruning that also drops the entry aged exactly window seconds
RECURSIVE prune_ge(_, _, _)
prune_ge(dq, t, window) ==
  IF dq # <<>> /\ (t - dq[1].time) >= window THEN prune_ge(Tail(dq), t, window) ELSE dq

\* while dq and (now - dq[0]["time"]) > window: dq.popleft()
RECURSIVE prune(_, _, _)
prune(dq, t, window) ==
  IF dq # <<>> /\ (t - dq[1].time) > window THEN prune(Tail(dq), t, window) ELSE dq

\* get_aggregate_text: dq is left pruned; the three results are as returned
get_aggregate_text(dq, t, window) ==
  LET pruned == prune(dq, t, window)
  IN  [dq           |-> pruned,
       agg_text     |-> Join([i \in 1..Len(pruned) |-> pruned[i].norm], " "),
       agg_mentions |-> \E i \in 1..Len(pruned) : pruned[i].had_mention,
       recent       |-> SelectSeq(pruned, LAMBDA item : (t - item.time) <= window)]

\* the single-message checks with the first two in the other order
single_check_swapped(content_norm, had_mention) ==
  IF is_bitch_insult(content_norm, had_mention) THEN 2
  ELSE IF is_fuck_you_super_strict(content_norm) THEN 1
  ELSE IF is_cheater_accusation(content_norm, had_mention) THEN 3
  ELSE IF is_player_implication(content_norm, had_mention) THEN 4
  ELSE IF is_loyalty_implication(content_norm, had_mention) THEN 5
  ELSE IF contains_banned_word(content_norm) THEN 6
  ELSE 0

\* the number (1..6) of the first single-message check that matches, else 0
single_check(content_norm, had_mention) ==
  IF is_fuck_you_super_strict(content_norm) THEN 1
  ELSE IF is_bitch_insult(content_norm, had_mention) THEN 2
  ELSE IF is_cheater_accusation(content_norm, had_mention) THEN 3
  ELSE IF is_player_implication(content_norm, had_mention) THEN 4
  ELSE IF is_loyalty_implication(content_norm, had_mention) THEN 5
  ELSE IF contains_banned_word(content_norm) THEN 6
  ELSE 0

\* the condition of the if at lines 373-380
aggregate_check(agg_text, agg_mentions, combo_words) ==
  \/ contains_all_words(agg_text, combo_words)
  \/ contains_banned_word(agg_text)
  \/ is_fuck_you_super_strict(agg_text)
  \/ is_cheater_accusation(agg_text, agg_mentions)
  \/ is_player_implication(agg_text, agg_mentions)
  \/ is_loyalty_implication(agg_text, agg_mentions)

\* -------------------------------------------------------------- commands

\* The command framework's reading of a message: the word after the prefix "!"
\* and the rest of the line.
FirstWordEnd(s) ==
  IF \E i \in 1..Len(s) : Ch(s, i) \in SpaceChars
  THEN (CHOOSE i \in 1..Len(s) :
          /\ Ch(s, i) \in SpaceChars
          /\ \A j \in 1..(i - 1) : Ch(s, j) \notin SpaceChars) - 1
  ELSE Len(s)

FirstWord(s) == SubSeq(s, 1, FirstWordEnd(s))

AfterFirstWord(s) == Strip(SubSeq(s, FirstWordEnd(s) + 1, Len(s)))

IsCommand(content) == content # "" /\ Head(content) = "!"

\* a setwords_cmd whose room entry is the default entry itself, not a copy
setwords_cmd_through(cfg, g, args) ==
  LET words == CommaWords(args)
  IN  IF Len(words) < 2 THEN cfg
      ELSE [get_guild_cfg(cfg, g) EXCEPT ![g].words = words, ![DefaultKey].words = words]

\* setwords_cmd: the config dict after the command
setwords_cmd(cfg, g, args) ==
  LET words == CommaWords(args)
  IN  IF Len(words) < 2 THEN cfg
      ELSE [get_guild_cfg(cfg, g) EXCEPT ![g].words = words]

\* a setwindow_cmd without the range test
setwindow_cmd_unchecked(cfg, g, seconds) ==
  [get_guild_cfg(cfg, g) EXCEPT ![g].window = seconds]

\* setwindow_cmd: the config dict after the command
setwindow_cmd(cfg, g, seconds) ==
  IF seconds < 1 \/ seconds > 600 THEN cfg
  ELSE [get_guild_cfg(cfg, g) EXCEPT ![g].window = seconds]

\* a handler that does not run the command before it moderates
process_commands_skipped(cfg, message) == cfg

\* bot.process_commands(message): the config dict after it. A command that fails
\* its check, lacks its argument or is given a non-integer is not run.
process_commands(cfg, message) ==
  IF message.bot \/ message.guild = NoGuild \/ ~IsCommand(message.content) THEN cfg
  ELSE LET name == FirstWord(Tail(message.content))
           rest == AfterFirstWord(Tail(message.content))
       IN  IF name \in {"help", "config"} THEN get_guild_cfg(cfg, message.guild)
           ELSE IF name = "setwords" /\ message.manager /\ rest # ""
                THEN setwords_cmd(cfg, message.guild, rest)
           ELSE IF name = "setwindow" /\ message.manager /\ ParseInt(FirstWord(rest)).ok
                THEN setwindow_cmd(cfg, message.guild, ParseInt(FirstWord(rest)).val)
           ELSE cfg

\* ------------------------------------------------------------- on_message

Ids == 1..Len(messages)

Running == {i \in Ids : pc[i] \notin {"done", "raised"}}

\* The platform's answers to a delete request; NotFound and Forbidden are
\* subclasses of HTTPException.
Responses == {"ok", "NotFound", "Forbidden"}

Caught(resp, classes) ==
  \/ resp \in classes
  \/ "HTTPException" \in classes /\ resp \in {"NotFound", "Forbidden"}

\* uniq = {}; for m in to_delete_objs: uniq[m.id] = m; list(uniq.values())[:100]
RECURSIVE uniq_ids(_, _)
uniq_ids(items, seen) ==
  IF items = <<>> THEN <<>>
  ELSE IF Head(items).id \in seen THEN uniq_ids(Tail(items), seen)
  ELSE <<Head(items).id>> \o uniq_ids(Tail(items), seen \cup {Head(items).id})

\* a batch cut to its first message
batch_first(items) ==
  LET u == uniq_ids(items, {}) IN SubSeq(u, 1, IF Len(u) < 1 THEN Len(u) ELSE 1)

batch_of(items) ==
  LET u == uniq_ids(items, {}) IN SubSeq(u, 1, IF Len(u) < 100 THEN Len(u) ELSE 100)

\* A message event arrives: on_message starts and runs to the suspension of
\* line 326 (await bot.process_commands), the command's own effect included.
Deliver(message) ==
  /\ messages' = Append(messages, message)
  /\ config' = process_commands(config, message)
  /\ pc' = Append(pc, "L326")
  /\ stamp' = Append(stamp, -1)
  /\ verdict' = Append(verdict, "none")
  /\ check' = Append(check, 0)
  /\ recent_items' = Append(recent_items, <<>>)
  /\ todo' = Append(todo, <<>>)
  /\ calls' = Append(calls, <<>>)
  /\ UNCHANGED <<now, BAN_WORDS, recent_msgs>>

\* Lines 327-382 up to the first await: the early return, the single-message
\* checks, the buffer and the aggregate checks, and the start of
\* delete_recent_user_msgs.
Moderate(id) ==
  /\ pc[id] = "L326"
  /\ LET message == messages[id] IN
     IF message.bot \/ message.guild = NoGuild
     THEN /\ pc' = [pc EXCEPT ![id] = "done"]
          /\ verdict' = [verdict EXCEPT ![id] = "Ignored"]
          /\ UNCHANGED <<config, recent_msgs, stamp, check, recent_items, todo>>
     ELSE
       LET cfg          == get_guild_cfg(config, message.guild)
           combo_words  == cfg[message.guild].words
           window       == cfg[message.guild].window
           content_norm == normalize(message.content)
           had_mention  == message.mentions
           matched      == single_check(content_norm, had_mention)
           key          == get_recent_key(message)
           dq           == IF key \in DOMAIN recent_msgs THEN recent_msgs[key] ELSE <<>>
           item         == [norm |-> content_norm, time |-> now,
                            had_mention |-> had_mention, id |-> id]
           agg          == get_aggregate_text(deque_append(dq, item), now, window)
           batch        == batch_of(agg.recent)
       IN  /\ config' = cfg
           /\ stamp' = [stamp EXCEPT ![id] = now]
           /\ check' = [check EXCEPT ![id] = matched]
           /\ IF matched # 0
              THEN /\ verdict' = [verdict EXCEPT ![id] = "DeleteCurrent"]
                   /\ pc' = [pc EXCEPT ![id] = "L340"]
                   /\ UNCHANGED <<recent_msgs, recent_items, todo>>
              ELSE /\ recent_msgs' = [k \in DOMAIN recent_msgs \cup {key} |->
                                        IF k = key THEN agg.dq ELSE recent_msgs[k]]
                   /\ IF aggregate_check(agg.agg_text, agg.agg_mentions, combo_words)
                      THEN /\ verdict' = [verdict EXCEPT ![id] = "DeleteWindowBatch"]
                           /\ recent_items' = [recent_items EXCEPT ![id] = agg.recent]
                           /\ todo' = [todo EXCEPT ![id] = batch]
                           /\ pc' = [pc EXCEPT ![id] =
                                       IF Len(batch) >= 2 THEN "L251"
                                       ELSE IF Len(batch) = 1 THEN "L257" ELSE "done"]
                      ELSE /\ verdict' = [verdict EXCEPT ![id] = "Allow"]
                           /\ pc' = [pc EXCEPT ![id] = "done"]
                           /\ UNCHANGED <<recent_items, todo>>
  /\ UNCHANGED <<now, BAN_WORDS, messages, calls>>

Call(op, ids) == [op |-> op, ids |-> ids]

\* await message.delete() of a single-message check returns (lines 340-362):
\* only discord.Forbidden is caught
DeleteReturn(id, resp) ==
  /\ pc[id] = "L340"
  /\ calls' = [calls EXCEPT ![id] = Append(@, Call("delete", <<id>>))]
  /\ pc' = [pc EXCEPT ![id] = IF resp = "ok" \/ Caught(resp, {"Forbidden"})
                              THEN "done" ELSE "raised"]
  /\ UNCHANGED <<now, BAN_WORDS, config, recent_msgs, messages, stamp, verdict, check,
                 recent_items, todo>>

\* a bulk delete that, when it succeeds, also takes the deleted messages out of
\* the key's buffer
BulkReturn_forgetting(id, resp) ==
  /\ pc[id] = "L251"
  /\ calls' = [calls EXCEPT ![id] = Append(@, Call("delete_messages", todo[id]))]
  /\ IF resp = "ok"
     THEN /\ pc' = [pc EXCEPT ![id] = "done"]
          /\ todo' = [todo EXCEPT ![id] = <<>>]
          /\ recent_msgs' =
               [recent_msgs EXCEPT ![get_recent_key(messages[id])] =
                  SelectSeq(@, LAMBDA e : \A t \in 1..Len(todo[id]) : e.id # todo[id][t])]
     ELSE /\ pc' = [pc EXCEPT ![id] =
                      IF Caught(resp, {"Forbidden", "HTTPException"}) THEN "L257" ELSE "raised"]
          /\ UNCHANGED <<todo, recent_msgs>>
  /\ UNCHANGED <<now, BAN_WORDS, config, messages, stamp, verdict, check, recent_items>>

\* await channel.delete_messages(batch) returns (lines 249-254)
BulkReturn(id, resp) ==
  /\ pc[id] = "L251"
  /\ calls' = [calls EXCEPT ![id] = Append(@, Call("delete_messages", todo[id]))]
  /\ IF resp = "ok"
     THEN /\ pc' = [pc EXCEPT ![id] = "done"]
          /\ todo' = [todo EXCEPT ![id] = <<>>]
     ELSE /\ pc' = [pc EXCEPT ![id] =
                      IF Caught(resp, {"Forbidden", "HTTPException"}) THEN "L257" ELSE "raised"]
          /\ UNCHANGED todo
  /\ UNCHANGED <<now, BAN_WORDS, config, recent_msgs, messages, stamp, verdict, check,
                 recent_items>>

\* a fallback loop that reads the key's buffer again after each suspension and
\* deletes its newest entry
EachReturn_live(id, resp) ==
  /\ pc[id] = "L257"
  /\ calls' = [calls EXCEPT ![id] =
                Append(@, Call("delete",
                               <<recent_msgs[get_recent_key(messages[id])]
                                   [Len(recent_msgs[get_recent_key(messages[id])])].id>>))]
  /\ todo' = [todo EXCEPT ![id] = Tail(@)]
  /\ pc' = [pc EXCEPT ![id] = IF Len(todo[id]) = 1 THEN "done" ELSE "L257"]
  /\ UNCHANGED <<now, BAN_WORDS, config, recent_msgs, messages, stamp, verdict, check,
                 recent_items>>

\* await m.delete() of  for m in batch  returns (lines 255-259)
EachReturn(id, resp) ==
  /\ pc[id] = "L257"
  /\ calls' = [calls EXCEPT ![id] = Append(@, Call("delete", <<Head(todo[id])>>))]
  /\ IF resp = "ok" \/ Caught(resp, {"NotFound", "Forbidden", "HTTPException"})
     THEN /\ todo' = [todo EXCEPT ![id] = Tail(@)]
          /\ pc' = [pc EXCEPT ![id] = IF Len(todo[id]) = 1 THEN "done" ELSE "L257"]
     ELSE /\ pc' = [pc EXCEPT ![id] = "raised"]
          /\ UNCHANGED todo
  /\ UNCHANGED <<now, BAN_WORDS, config, recent_msgs, messages, stamp, verdict, check,
                 recent_items>>

\* time.time() advances
Tick(d) ==
  /\ now' = now + d
  /\ UNCHANGED <<BAN_WORDS, config, recent_msgs, messages, pc, stamp, verdict, check,
                 recent_items, todo, calls>>

\* -------------------------------------------------------- specifications

Msg(g, c, u, content, mentions) ==
  [guild |-> g, channel |-> c, author |-> u, bot |-> FALSE, manager |-> FALSE,
   content |-> content, mentions |-> mentions]

\* The process starts: the module-level code has run with the three environment
\* variables as given and no config.json.
InitWith(words_env, window_env, ban_env) ==
  /\ now = 0
  /\ BAN_WORDS = ban_env
  /\ config = load_config(words_env, window_env, <<>>)
  /\ recent_msgs = <<>>
  /\ messages = <<>>
  /\ pc = <<>>
  /\ stamp = <<>>
  /\ verdict = <<>>
  /\ check = <<>>
  /\ recent_items = <<>>
  /\ todo = <<>>
  /\ calls = <<>>

\* One step of the event loop: a message of inbox arrives (at most maxMsgs in
\* all, at most maxRunning handlers unfinished at a time), a suspended handler
\* resumes, or the clock advances by one of ticks (up to maxTime).
Step(inbox, ticks, maxMsgs, maxRunning, maxTime) ==
  \/ \E message \in inbox :
       /\ Len(messages) < maxMsgs
       /\ Cardinality(Running) < maxRunning
       /\ Deliver(message)
  \/ \E id \in Ids : Moderate(id)
  \/ \E id \in Ids, resp \in Responses : DeleteReturn(id, resp)
  \/ \E id \in Ids, resp \in Responses : BulkReturn(id, resp)
  \/ \E id \in Ids, resp \in Responses : EachReturn(id, resp)
  \/ \E d \in ticks : now + d <= maxTime /\ Tick(d)

\* Spec: one guild with WINDOW=1, two users and two channels; the texts are
\* harmless alone, match a single-message check, or match only when combined.
MaxMsgs == 3
MaxRunning == 1
MaxTime == 2

Inbox ==
  {Msg("g1", "c1", "u1", "you", FALSE),
   Msg("g1", "c1", "u1", "are a cheater", FALSE),
   Msg("g1", "c1", "u1", "cheater", FALSE),
   Msg("g1", "c1", "u1", "Chunky cheater", FALSE),
   Msg("g1", "c1", "u1", "biatch", FALSE),
   Msg("g1", "c1", "u1", "hi", TRUE),
   Msg("g1", "c1", "u2", "cheater", FALSE),
   Msg("g1", "c2", "u1", "cheater", FALSE)}

Init == InitWith("", "1", "")

Next == Step(Inbox, {1}, MaxMsgs, MaxRunning, MaxTime)

Spec == Init /\ [][Next]_vars

\* The end-to-end scenario: default settings (words chunky, cheater; window 30),
\* the clock advancing in steps of 5 seconds.
MaxMsgsE2E == 3

MaxTimeE2E == 10

InboxE2E ==
  {Msg("g1", "c1", "u1", "chunky", FALSE),
   Msg("g1", "c1", "u1", "cheater", FALSE),
   Msg("g1", "c1", "u1", "are a cheater", FALSE),
   Msg("g1", "c1", "u2", "cheater", FALSE)}

InitE2E == InitWith("", "", "")

NextE2E == Step(InboxE2E, {5}, MaxMsgsE2E, MaxRunning, MaxTimeE2E)

SpecE2E == InitE2E /\ [][NextE2E]_vars

\* Single-message checks: texts that match several checks at once, one for each
\* first match, and texts that match none.
MaxMsgsSingle == 2

MaxTimeSingle == 1

InboxSingle ==
  {Msg("g1", "c1", "u1", "fuck you bitch", FALSE),
   Msg("g1", "c1", "u1", "you bitch", FALSE),
   Msg("g1", "c1", "u1", "you cheater player", FALSE),
   Msg("g1", "c1", "u1", "you player hoes", FALSE),
   Msg("g1", "c1", "u1", "he is not loyal hoe", FALSE),
   Msg("g1", "c1", "u1", "hoes", FALSE),
   Msg("g1", "c1", "u1", "hi", TRUE),
   Msg("g1", "c1", "u1", "you", FALSE),
   Msg("g1", "c1", "u1", "cheater", FALSE),
   Msg("g1", "c1", "u1", "Chunky cheater", FALSE)}

NextSingle == Step(InboxSingle, {1}, MaxMsgsSingle, MaxRunning, MaxTimeSingle)

SpecSingle == Init /\ [][NextSingle]_vars

\* The capacity of a buffer: more than MAX_RECENT harmless messages of one
\* author, all inside the default window of 30 seconds. No message of this
\* inbox leads to a delete call, so the three returns of delete calls are never
\* enabled and the next-state relation lists the other three actions.
MaxMsgsCap == 11

MaxTimeCap == 2

InboxCap == {Msg("g1", "c1", "u1", "hi", FALSE)}

NextCap ==
  \/ \E message \in InboxCap :
       Len(messages) < MaxMsgsCap /\ Cardinality(Running) < MaxRunning /\ Deliver(message)
  \/ \E id \in Ids : Moderate(id)
  \/ now + 1 <= MaxTimeCap /\ Tick(1)

SpecCap == InitE2E /\ [][NextCap]_vars

\* Interleaved handlers: up to MaxRunningConc handlers are between their start
\* and their end at the same time.
MaxMsgsConc == 3

MaxRunningConc == 2

MaxTimeConc == 2

InboxConc ==
  {Msg("g1", "c1", "u1", "you", FALSE),
   Msg("g1", "c1", "u1", "cheater", FALSE),
   Msg("g1", "c1", "u1", "are a cheater", FALSE),
   Msg("g1", "c1", "u2", "hi", FALSE)}

NextConc == Step(InboxConc, {1}, MaxMsgsConc, MaxRunningConc, MaxTimeConc)

SpecConc == Init /\ [][NextConc]_vars

\* A message of a member with the manage_guild permission
ManagerMsg(g, c, u, content) ==
  [guild |-> g, channel |-> c, author |-> u, bot |-> FALSE, manager |-> TRUE,
   content |-> content, mentions |-> FALSE]

\* The environment at start: WINDOW and WORDS unset, set to values inside the
\* documented ranges, and set to values outside them.
WindowEnvs == {"", "600", "0", "601", "-5", "soon"}

WordsEnvs == {"", "aa, bb", "solo", " , "}

MaxMsgsEnv == 2

MaxTimeEnv == 1

InboxEnv ==
  {Msg("g1", "c1", "u1", "hi", FALSE),
   Msg("g2", "c1", "u1", "hi", FALSE),
   Msg("g1", "c1", "u1", "hoes", FALSE),
   ManagerMsg("g1", "c1", "u1", "!setwindow 5"),
   ManagerMsg("g1", "c1", "u1", "!setwords aa, bb")}

InitEnv == \E words_env \in WordsEnvs, window_env \in WindowEnvs : InitWith(words_env, window_env, "")

NextEnv == Step(InboxEnv, {1}, MaxMsgsEnv, MaxRunning, MaxTimeEnv)

SpecEnv == InitEnv /\ [][NextEnv]_vars

\* Several keys: the same harmless half of an accusation from another author,
\* another channel and another guild, and the other half from the first author.
MaxMsgsKeys == 3

MaxTimeKeys == 1

InboxKeys ==
  {Msg("g1", "c1", "u1", "you", FALSE),
   Msg("g1", "c1", "u1", "cheater", FALSE),
   Msg("g1", "c1", "u2", "you", FALSE),
   Msg("g1", "c2", "u1", "you", FALSE),
   Msg("g2", "c1", "u1", "you", FALSE),
   Msg("g1", "c1", "u2", "hoes", FALSE)}

NextKeys == Step(InboxKeys, {1}, MaxMsgsKeys, MaxRunning, MaxTimeKeys)

SpecKeys == Init /\ [][NextKeys]_vars

\* Normalisation: one message whose content is any string of at most
\* MaxLenNorm characters over an alphabet with a lower-case and an upper-case
\* letter, leetspeak digits and symbols, an unmapped digit, punctuation and two
\* kinds of whitespace. FoldedTexts are texts with folded and accented letters. No
\* such text leads to a batch deletion, so the returns of the batch calls are
\* never enabled and the next-state relation lists the other four actions.
MaxLenNorm == 3

MaxTimeNorm == 1

AlphabetNorm == {"a", "H", "0", "3", "@", "!", "2", ".", "_", " ", "\t"}

RECURSIVE StringsOver(_, _)
StringsOver(alphabet, n) ==
  IF n = 0 THEN {""}
  ELSE LET shorter == StringsOver(alphabet, n - 1)
       IN  shorter \cup {t \o c : t \in shorter, c \in alphabet}

FoldedTexts == {"ß", "é", "Straße 3", "ñéü!", "çå  ø", "H0è ála", "þð æ", "ýö@"}

InboxNorm == {Msg("g1", "c1", "u1", t, FALSE) : t \in StringsOver(AlphabetNorm, MaxLenNorm)}

NextNorm ==
  \/ \E message \in InboxNorm : messages = <<>> /\ Deliver(message)
  \/ \E id \in Ids : Moderate(id)
  \/ \E id \in Ids, resp \in Responses : DeleteReturn(id, resp)
  \/ now + 1 <= MaxTimeNorm /\ Tick(1)

SpecNorm == Init /\ [][NextNorm]_vars

\* Cheater accusations: texts with a cheating stem that are undirected,
\* directed by a mention, directed by an addressee word, or matched by one of
\* the patterns, and texts without a stem.
MaxMsgsCheat == 2

MaxTimeCheat == 1

InboxCheat ==
  {Msg("g1", "c1", "u1", "cheating is bad", FALSE),
   Msg("g1", "c1", "u1", "cheating is bad", TRUE),
   Msg("g1", "c1", "u1", "you are cheating", FALSE),
   Msg("g1", "c1", "u1", "he cheats", FALSE),
   Msg("g1", "c1", "u1", "Cheated again", FALSE),
   Msg("g1", "c1", "u1", "stop cheating", FALSE),
   Msg("g1", "c1", "u1", "bob is a cheater", FALSE),
   Msg("g1", "c1", "u1", "cheaters lose", FALSE),
   Msg("g1", "c1", "u1", "you", FALSE)}

NextCheat == Step(InboxCheat, {1}, MaxMsgsCheat, MaxRunning, MaxTimeCheat)

SpecCheat == Init /\ [][NextCheat]_vars

\* Administrative commands in two guilds: accepted and rejected ones, one of a
\* member without the permission, with up to MaxRunningCmd handlers between
\* their start and their end at the same time.
MaxMsgsCmd == 2

MaxRunningCmd == 2

MaxTimeCmd == 1

InboxCmd ==
  {ManagerMsg("g1", "c1", "u1", "!setwords aa, bb"),
   ManagerMsg("g1", "c1", "u1", "!setwords you, cheater"),
   ManagerMsg("g1", "c1", "u1", "!setwords solo"),
   ManagerMsg("g1", "c1", "u1", "!setwindow 0"),
   ManagerMsg("g1", "c1", "u1", "!setwindow 601"),
   ManagerMsg("g1", "c1", "u1", "!setwindow 5"),
   Msg("g1", "c1", "u2", "!setwindow 7", FALSE),
   ManagerMsg("g2", "c1", "u1", "!setwindow 9"),
   Msg("g2", "c1", "u2", "hi", FALSE)}

NextCmd == Step(InboxCmd, {1}, MaxMsgsCmd, MaxRunningCmd, MaxTimeCmd)

SpecCmd == Init /\ [][NextCmd]_vars

\* ------------------------------------------------------------ properties

Key(id) == get_recent_key(messages[id])

Buffer(key) == IF key \in DOMAIN recent_msgs THEN recent_msgs[key] ELSE <<>>

BufferAfter(key) == IF key \in DOMAIN recent_msgs' THEN recent_msgs'[key] ELSE <<>>

IdsOf(items) == {items[i].id : i \in 1..Len(items)}

Norm(id) == normalize(messages[id].content)

Moderated(id) == ~messages[id].bot /\ messages[id].guild # NoGuild

\* the room's settings as the handler of id reads them (lines 330-332)
RoomCfg(id) == get_guild_cfg(config, messages[id].guild)[messages[id].guild]

\* the step in which the handler of id runs lines 327-382 up to its first await
Handles(id) == pc[id] = "L326" /\ pc'[id] # "L326"

\* what the handler of id passes to get_aggregate_text, and what it gets
Appended(id) ==
  deque_append(Buffer(Key(id)),
               [norm |-> Norm(id), time |-> now, had_mention |-> messages[id].mentions,
                id |-> id])

Aggregate(id) == get_aggregate_text(Appended(id), now, RoomCfg(id).window)

\* id is about to be handled, m1 is the last message recorded for the same
\* guild, channel and author, neither matches a single-message check, and the
\* two normalised texts joined by a space match an aggregate check
SplitPair(id) ==
  /\ Moderated(id)
  /\ Buffer(Key(id)) # <<>>
  /\ single_check(Norm(id), messages[id].mentions) = 0
  /\ LET m1 == Buffer(Key(id))[Len(Buffer(Key(id)))]
     IN  /\ single_check(m1.norm, m1.had_mention) = 0
         /\ aggregate_check(Join(<<m1.norm, Norm(id)>>, " "),
                            m1.had_mention \/ messages[id].mentions, RoomCfg(id).words)

\* C1, as amended. Two consecutive messages m1, m2 of one author in one guild
\* and channel, neither matching a single-message check, their joined texts
\* matching an aggregate check: when m2 is handled at most window seconds after
\* m1 (exactly window included) the verdict is a batch deletion covering m1 and
\* m2; when it is handled later, m1 is pruned and is no target, and m2 is allowed
\* unless its own text contains every word of the room's combo, in which case
\* the batch deletion covers m2 alone.
C1_SplitAcrossMessages ==
  [][\A id \in Ids :
       Handles(id) /\ SplitPair(id) /\ RoomCfg(id).window >= 0 =>
         LET m1 == Buffer(Key(id))[Len(Buffer(Key(id)))]
         IN  IF now - m1.time <= RoomCfg(id).window
             THEN /\ verdict'[id] = "DeleteWindowBatch"
                  /\ {m1.id, id} \subseteq IdsOf(recent_items'[id])
             ELSE /\ m1.id \notin IdsOf(BufferAfter(Key(id)))
                  /\ m1.id \notin IdsOf(recent_items'[id])
                  /\ IF contains_all_words(Norm(id), RoomCfg(id).words)
                     THEN /\ verdict'[id] = "DeleteWindowBatch"
                          /\ IdsOf(recent_items'[id]) = {id}
                     ELSE verdict'[id] = "Allow"]_vars

\* C1 as stated: outside the window m2 is always allowed.
C1_Original ==
  [][\A id \in Ids :
       Handles(id) /\ SplitPair(id) /\ RoomCfg(id).window >= 0 =>
         LET m1 == Buffer(Key(id))[Len(Buffer(Key(id)))]
         IN  IF now - m1.time <= RoomCfg(id).window
             THEN /\ verdict'[id] = "DeleteWindowBatch"
                  /\ {m1.id, id} \subseteq IdsOf(recent_items'[id])
             ELSE /\ m1.id \notin IdsOf(BufferAfter(Key(id)))
                  /\ m1.id \notin IdsOf(recent_items'[id])
                  /\ verdict'[id] = "Allow"]_vars

\* A handler has just combined two messages sent exactly window seconds apart.
C1_Witness ==
  \E id \in Ids :
    /\ verdict[id] = "DeleteWindowBatch"
    /\ Len(recent_items[id]) >= 2
    /\ LET n  == Len(recent_items[id])
           m1 == recent_items[id][n - 1]
           m2 == recent_items[id][n]
       IN  /\ m2.id = id
           /\ m2.time - m1.time = config[messages[id].guild].window
           /\ single_check(m1.norm, m1.had_mention) = 0
           /\ single_check(m2.norm, m2.had_mention) = 0
           /\ ~aggregate_check(m2.norm, m2.had_mention, config[messages[id].guild].words)
           /\ aggregate_check(Join(<<m1.norm, m2.norm>>, " "),
                              m1.had_mention \/ m2.had_mention,
                              config[messages[id].guild].words)

\* C3, as amended. When "you" is the last recorded message of an author and the
\* same author's "are a cheater" is handled in the same channel within the
\* window, "you" alone matches no single-message check, but "are a cheater"
\* alone matches the cheater-accusation check: the verdict deletes the current
\* message only, nothing is recorded and no batch is formed.
C3_YouThenAreACheater ==
  [][\A id \in Ids :
       /\ Handles(id)
       /\ Moderated(id)
       /\ messages[id].content = "are a cheater"
       /\ ~messages[id].mentions
       /\ Buffer(Key(id)) # <<>>
       /\ LET m1 == Buffer(Key(id))[Len(Buffer(Key(id)))]
          IN  m1.norm = "you" /\ ~m1.had_mention /\ now - m1.time <= RoomCfg(id).window
       => /\ single_check("you", FALSE) = 0
          /\ check'[id] = 3
          /\ verdict'[id] = "DeleteCurrent"
          /\ recent_items'[id] = <<>>
          /\ BufferAfter(Key(id)) = Buffer(Key(id))]_vars

\* C3 as stated: neither message matches alone and the second yields a batch
\* deletion covering both.
C3_Original ==
  [][\A id \in Ids :
       /\ Handles(id)
       /\ Moderated(id)
       /\ messages[id].content = "are a cheater"
       /\ ~messages[id].mentions
       /\ Buffer(Key(id)) # <<>>
       /\ LET m1 == Buffer(Key(id))[Len(Buffer(Key(id)))]
          IN  m1.norm = "you" /\ ~m1.had_mention /\ now - m1.time <= RoomCfg(id).window
       => /\ single_check("you", FALSE) = 0
          /\ single_check(Norm(id), FALSE) = 0
          /\ verdict'[id] = "DeleteWindowBatch"
          /\ {Buffer(Key(id))[Len(Buffer(Key(id)))].id, id} \subseteq IdsOf(recent_items'[id])]_vars

\* "are a cheater" has just been handled with "you" as the author's last
\* recorded message, still inside the window.
C3_Witness ==
  \E id \in Ids :
    /\ id = Len(messages)
    /\ messages[id].content = "are a cheater"
    /\ pc[id] = "L340"
    /\ check[id] = 3
    /\ Buffer(Key(id)) # <<>>
    /\ LET m1 == Buffer(Key(id))[Len(Buffer(Key(id)))]
       IN  /\ m1.norm = "you"
           /\ messages[m1.id].content = "you"
           /\ stamp[id] - m1.time <= config[messages[id].guild].window

\* C5, as stated. When no single-message check matches, each of the five
\* semantic detectors (fuck-you, bitch-insult, cheater-accusation,
\* player-implication, loyalty-implication) is tested on the aggregate text
\* with the OR-ed mention flag, and a match of any of them yields a batch
\* deletion over all live entries.
C5_AllDetectorsOnAggregate ==
  [][\A id \in Ids :
       /\ Handles(id)
       /\ Moderated(id)
       /\ single_check(Norm(id), messages[id].mentions) = 0
       /\ LET agg == Aggregate(id)
          IN  \/ is_fuck_you_super_strict(agg.agg_text)
              \/ is_bitch_insult(agg.agg_text, agg.agg_mentions)
              \/ is_cheater_accusation(agg.agg_text, agg.agg_mentions)
              \/ is_player_implication(agg.agg_text, agg.agg_mentions)
              \/ is_loyalty_implication(agg.agg_text, agg.agg_mentions)
       => /\ verdict'[id] = "DeleteWindowBatch"
          /\ recent_items'[id] = Aggregate(id).recent]_vars

\* C7, as stated. No handler ends with an exception raised by a delete whose
\* response was not-found or permission-denied.
C7_DeleteErrorsSwallowed == \A id \in Ids : pc[id] # "raised"

TargetsOf(id) == [i \in 1..Len(recent_items[id]) |-> recent_items[id][i].id]

Singles(T) == [i \in 1..Len(T) |-> Call("delete", <<T[i]>>)]

IsPrefix(a, b) == Len(a) <= Len(b) /\ a = SubSeq(b, 1, Len(a))

\* C6. A handler whose verdict is a batch deletion with targets T, the live
\* entries the aggregate returned: with at least 2 targets it issues one bulk
\* delete of T and then either nothing more or one delete per target in order;
\* with 1 target it issues a single delete of it; it issues nothing else. Every
\* target of every delete call of a handler is a message of the handler's own
\* (guild, channel, author).
C6_BatchDeletion ==
  \A id \in Ids :
    /\ \A c \in 1..Len(calls[id]) : \A t \in 1..Len(calls[id][c].ids) :
         Key(calls[id][c].ids[t]) = Key(id)
    /\ verdict[id] = "DeleteWindowBatch" =>
         LET T    == TargetsOf(id)
             bulk == <<Call("delete_messages", T)>>
         IN  /\ pc[id] \in {"L251", "L257", "done"}
             /\ \A i \in 1..Len(T) : Key(T[i]) = Key(id)
             /\ Len(T) >= 2 =>
                  /\ IsPrefix(calls[id], bulk \o Singles(T))
                  /\ pc[id] = "L251" <=> calls[id] = <<>>
                  /\ pc[id] = "done" => calls[id] \in {bulk, bulk \o Singles(T)}
             /\ Len(T) = 1 =>
                  /\ IsPrefix(calls[id], Singles(T))
                  /\ pc[id] = "done" <=> calls[id] = Singles(T)
             /\ Len(T) = 0 => calls[id] = <<>>

\* A batch of two messages went through the bulk delete and the fallback,
\* while another author's recorded message in the same channel stayed out of it.
C6_Witness ==
  \E id \in Ids, other \in Ids :
    /\ verdict[id] = "DeleteWindowBatch"
    /\ pc[id] = "done"
    /\ Len(TargetsOf(id)) = 2
    /\ calls[id] = <<Call("delete_messages", TargetsOf(id))>> \o Singles(TargetsOf(id))
    /\ messages[other].channel = messages[id].channel
    /\ messages[other].author # messages[id].author
    /\ verdict[other] = "Allow"
    /\ other \in IdsOf(Buffer(Key(other)))

\* C9. When a handler records its message and calls get_aggregate_text, the
\* buffer is left holding exactly the entries it held (the new one included)
\* with now - time <= window, in order; the combined text is their normalised
\* texts joined by spaces, the mention flag is the OR of their flags, and the
\* returned list equals the remaining buffer.
C9_AggregatePrunesExactly ==
  [][\A id \in Ids :
       /\ Handles(id)
       /\ Moderated(id)
       /\ single_check(Norm(id), messages[id].mentions) = 0
       => LET window == RoomCfg(id).window
              live   == SelectSeq(Appended(id), LAMBDA e : now - e.time <= window)
              res    == Aggregate(id)
          IN  /\ BufferAfter(Key(id)) = live
              /\ res.dq = live
              /\ res.agg_text = Join([i \in 1..Len(live) |-> live[i].norm], " ")
              /\ res.agg_mentions = (\E i \in 1..Len(live) : live[i].had_mention)
              /\ res.recent = live
              /\ verdict'[id] = "DeleteWindowBatch" => recent_items'[id] = live]_vars

\* The latest handler pruned an entry older than the window and kept one aged
\* exactly window seconds.
C9_Witness ==
  \E id \in Ids, old \in Ids, edge \in Ids :
    /\ id = Len(messages)
    /\ pc[id] = "done"
    /\ check[id] = 0
    /\ \A m \in {old, edge} : Key(m) = Key(id) /\ check[m] = 0 /\ pc[m] = "done"
    /\ stamp[id] - stamp[old] > config[messages[id].guild].window
    /\ stamp[id] - stamp[edge] = config[messages[id].guild].window
    /\ IdsOf(Buffer(Key(id))) = {edge, id}

\* C2. With the room's words chunky, cheater, window 30 and no BAN_WORDS: an
\* author's "chunky", handled with an empty buffer, is allowed and recorded;
\* the same author's "cheater" handled 5 seconds later in the same channel
\* yields a batch deletion whose targets are exactly those two messages.
C2_ChunkyThenCheater ==
  [][\A id \in Ids :
       /\ Handles(id)
       /\ Moderated(id)
       /\ ~messages[id].mentions
       /\ RoomCfg(id).words = <<"chunky", "cheater">>
       /\ RoomCfg(id).window = 30
       /\ BAN_WORDS = ""
       => /\ messages[id].content = "chunky" /\ Buffer(Key(id)) = <<>> =>
               /\ verdict'[id] = "Allow"
               /\ IdsOf(BufferAfter(Key(id))) = {id}
          /\ /\ messages[id].content = "cheater"
             /\ Len(Buffer(Key(id))) = 1
             /\ messages[Buffer(Key(id))[1].id].content = "chunky"
             /\ now - Buffer(Key(id))[1].time = 5
             => /\ verdict'[id] = "DeleteWindowBatch"
                /\ todo'[id] = <<Buffer(Key(id))[1].id, id>>
                /\ [i \in 1..Len(recent_items'[id]) |-> recent_items'[id][i].id]
                     = <<Buffer(Key(id))[1].id, id>>]_vars

\* "chunky" was allowed, "cheater" came 5 seconds later, and the bulk delete of
\* exactly the two has been issued.
C2_Witness ==
  \E m1 \in Ids, m2 \in Ids :
    /\ Key(m1) = Key(m2)
    /\ messages[m1].content = "chunky"
    /\ messages[m2].content = "cheater"
    /\ verdict[m1] = "Allow"
    /\ stamp[m2] - stamp[m1] = 5
    /\ verdict[m2] = "DeleteWindowBatch"
    /\ calls[m2] = <<Call("delete_messages", <<m1, m2>>)>>
    /\ pc[m2] = "done"

\* the six single-message checks by their number
Detects(k, text, mention) ==
  CASE k = 1 -> is_fuck_you_super_strict(text)
    [] k = 2 -> is_bitch_insult(text, mention)
    [] k = 3 -> is_cheater_accusation(text, mention)
    [] k = 4 -> is_player_implication(text, mention)
    [] k = 5 -> is_loyalty_implication(text, mention)
    [] k = 6 -> contains_banned_word(text)

\* C4. The handler's single-message verdict is that of the first of the six
\* checks, in the order fuck-you, bitch-insult, cheater-accusation,
\* player-implication, loyalty-implication, banned-word, that matches the
\* message. When one matches, the verdict deletes the current message only, no
\* batch is formed and every buffer is unchanged; the only delete call of that
\* handler is for its own message. The message is appended to the author's
\* buffer exactly when none matches.
C4_SingleChecksFirstMatch ==
  /\ [][\A id \in Ids :
          Handles(id) /\ Moderated(id) =>
            LET hits == {k \in 1..6 : Detects(k, Norm(id), messages[id].mentions)}
            IN  IF hits # {}
                THEN /\ check'[id] = CHOOSE k \in hits : \A j \in hits : k <= j
                     /\ verdict'[id] = "DeleteCurrent"
                     /\ recent_msgs' = recent_msgs
                     /\ recent_items'[id] = <<>>
                     /\ todo'[id] = <<>>
                ELSE /\ check'[id] = 0
                     /\ verdict'[id] \in {"Allow", "DeleteWindowBatch"}
                     /\ BufferAfter(Key(id)) # <<>>
                     /\ BufferAfter(Key(id))[Len(BufferAfter(Key(id)))].id = id]_vars
  /\ [](\A id \in Ids :
          verdict[id] = "DeleteCurrent" =>
            /\ IsPrefix(calls[id], <<Call("delete", <<id>>)>>)
            /\ pc[id] \in {"done", "raised"} <=> calls[id] = <<Call("delete", <<id>>)>>
            /\ \A key \in DOMAIN recent_msgs : id \notin IdsOf(recent_msgs[key]))

\* A message matching the bitch-insult and the banned-word checks but not the
\* fuck-you check was decided by the bitch-insult check and deleted alone, and
\* a message matching the first two checks was decided by the first.
C4_Witness ==
  \E id \in Ids, first \in Ids :
    /\ verdict[id] = "DeleteCurrent"
    /\ check[id] = 2
    /\ Detects(6, Norm(id), messages[id].mentions)
    /\ calls[id] = <<Call("delete", <<id>>)>>
    /\ check[first] = 1
    /\ Detects(2, Norm(first), messages[first].mentions)

\* C8. No buffer ever holds more than 10 entries, and recording a message into
\* a buffer of 10 drops exactly the oldest entry, also when that entry is still
\* inside the time window.
C8_BufferCapacity ==
  /\ [](\A key \in DOMAIN recent_msgs : Len(recent_msgs[key]) <= 10)
  /\ [][\A id \in Ids :
          /\ Handles(id)
          /\ check'[id] = 0
          /\ verdict'[id] # "Ignored"
          /\ Len(Buffer(Key(id))) = 10
          => /\ Appended(id) = Tail(Buffer(Key(id))) \o <<Appended(id)[10]>>
             /\ Appended(id)[10].id = id
             /\ now - Buffer(Key(id))[1].time <= RoomCfg(id).window =>
                  /\ [i \in 1..9 |-> BufferAfter(Key(id))[i]] = Tail(Buffer(Key(id)))
                  /\ Len(BufferAfter(Key(id))) = 10
                  /\ BufferAfter(Key(id))[10].id = id]_vars

\* An 11th message has been recorded while the first was still inside the
\* window: the buffer holds the last 10.
C8_Witness ==
  \E id \in Ids, key \in DOMAIN recent_msgs :
    /\ id = 11
    /\ key = Key(id)
    /\ pc[id] = "done"
    /\ stamp[id] - stamp[1] <= config[messages[id].guild].window
    /\ stamp[id] > stamp[1]
    /\ [i \in 1..Len(recent_msgs[key]) |-> recent_msgs[key][i].id]
         = <<2, 3, 4, 5, 6, 7, 8, 9, 10, 11>>

\* C10. The entries of every buffer are in non-decreasing order of their
\* timestamps from front to back, whatever the interleaving of the handlers
\* (the clock read by the handlers never goes back).
C10_BuffersTimeOrdered ==
  \A key \in DOMAIN recent_msgs :
    \A i \in 1..Len(recent_msgs[key]), j \in 1..Len(recent_msgs[key]) :
      i < j => recent_msgs[key][i].time <= recent_msgs[key][j].time

\* Two handlers overlapped and the later message was recorded first, at an
\* earlier time than the earlier message.
C10_Witness ==
  \E key \in DOMAIN recent_msgs :
    \E i \in 1..Len(recent_msgs[key]), j \in 1..Len(recent_msgs[key]) :
      /\ i < j
      /\ recent_msgs[key][i].id > recent_msgs[key][j].id
      /\ recent_msgs[key][i].time < recent_msgs[key][j].time

Rooms == DOMAIN config \ {DefaultKey}

\* C11, as stated. In every reachable state the window of every room's config
\* is within 1..600.
C11_WindowInRange == \A g \in Rooms : config[g].window \in 1..600

\* C12, as stated. In every reachable state the words of every room's config
\* are at least 2, so that the word-combo test is never true of every text.
C12_AtLeastTwoWords ==
  \A g \in Rooms : Len(config[g].words) >= 2 /\ ~contains_all_words("", config[g].words)

SameSource(a, b) ==
  /\ messages[a].guild = messages[b].guild
  /\ messages[a].channel = messages[b].channel
  /\ messages[a].author = messages[b].author

\* C13. A handler changes no buffer but the one of its own message's (guild,
\* channel, author), and steps other than a handler's moderation change no
\* buffer; every buffer holds messages of one guild, channel and author only,
\* the entries a handler aggregates and hands to deletion are of its own
\* message's guild, channel and author, and so is every target of its calls.
C13_OnlyOwnKey ==
  /\ [][\A id \in Ids :
          Handles(id) =>
            /\ \A key \in DOMAIN recent_msgs :
                 key # <<messages[id].guild, messages[id].channel, messages[id].author>>
                   => key \in DOMAIN recent_msgs' /\ recent_msgs'[key] = recent_msgs[key]
            /\ DOMAIN recent_msgs' \subseteq
                 DOMAIN recent_msgs
                   \cup {<<messages[id].guild, messages[id].channel, messages[id].author>>}
            /\ \A e \in IdsOf(recent_items'[id]) : SameSource(e, id)]_vars
  /\ [][(\A id \in Ids : ~Handles(id)) => recent_msgs' = recent_msgs]_vars
  /\ [](\A key \in DOMAIN recent_msgs :
          \A a \in IdsOf(recent_msgs[key]) :
            key = <<messages[a].guild, messages[a].channel, messages[a].author>>)
  /\ [](\A id \in Ids : \A c \in 1..Len(calls[id]) : \A t \in 1..Len(calls[id][c].ids) :
          SameSource(calls[id][c].ids[t], id))

\* "cheater" of one author was allowed while two messages "you" of other
\* sources (another author, channel or guild), one of them of the same guild,
\* were recorded inside the window: the halves were not combined.
C13_Witness ==
  \E id \in Ids, a \in Ids, b \in Ids :
    /\ id = 3
    /\ messages[id].content = "cheater"
    /\ verdict[id] = "Allow"
    /\ messages[a].content = "you" /\ messages[b].content = "you"
    /\ a # b
    /\ ~SameSource(a, id) /\ ~SameSource(b, id)
    /\ messages[a].guild = messages[id].guild
    /\ verdict[a] = "Allow" /\ verdict[b] = "Allow"
    /\ stamp[id] - stamp[a] <= config[messages[id].guild].window
    /\ stamp[id] - stamp[b] <= config[messages[id].guild].window

\* C14. normalize is idempotent: for the content s of every message delivered,
\* normalize(normalize(s)) = normalize(s), and the text a handler records is
\* its own normal form; the same holds of the texts with folded and accented
\* letters.
C14_NormalizeIdempotent ==
  /\ \A t \in FoldedTexts : normalize(normalize(t)) = normalize(t)
  /\ \A id \in Ids : normalize(normalize(messages[id].content)) = normalize(messages[id].content)
  /\ \A key \in DOMAIN recent_msgs : \A i \in 1..Len(recent_msgs[key]) :
       /\ recent_msgs[key][i].norm = normalize(messages[recent_msgs[key][i].id].content)
       /\ normalize(recent_msgs[key][i].norm) = recent_msgs[key][i].norm

\* A text with a leetspeak symbol, punctuation and an upper-case letter has
\* been recorded in its normal form, which differs from it.
C14_Witness ==
  \E id \in Ids :
    /\ messages[id].content = "@.H"
    /\ pc[id] = "done"
    /\ Buffer(Key(id)) # <<>>
    /\ Buffer(Key(id))[1].norm = "a h"

\* the three patterns of the cheater-accusation detector
CheatPatterns(t) ==
  \/ re_search(Cat(<<Wb, AtLeast2(Wc), SpPlus,
                     Alt(<<Lit("is"), Lit("s"), Lit("is a"), Lit("s a"), Lit("a")>>),
                     SpPlus, Lit("cheat"), Star(Wc), Wb>>), t)
  \/ re_search(Cat(<<Wb, Lit("stop"), SpPlus, Lit("cheat"), Star(Wc), Wb>>), t)
  \/ re_search(Cat(<<Wb, Alt(<<Lit("is"), Lit("are")>>), SpPlus, Lit("cheat"), Star(Wc), Wb>>), t)

\* C15. For a handled message whose normalised text holds a cheating-stem
\* word: with a mention or an addressee word the cheater-accusation check
\* flags it (the handler's verdict is the third check's); with no mention, no
\* addressee word and none of the three patterns the detector does not flag it.
\* In particular "cheating is bad" without mention passes and "you are
\* cheating" is flagged.
C15_DirectedCheaterAccusation ==
  [][\A id \in Ids :
       Handles(id) /\ Moderated(id) =>
         LET t         == Norm(id)
             m         == messages[id].mentions
             stem      == \E w \in {"cheat", "cheater", "cheating", "cheated", "cheats"} :
                            has_word(t, w)
             addressee == \E w \in PRONOUN_TARGETS : has_word(t, w)
         IN  /\ stem /\ (m \/ addressee) =>
                  is_cheater_accusation(t, m) /\ check'[id] = 3 /\ verdict'[id] = "DeleteCurrent"
             /\ stem /\ ~m /\ ~addressee /\ ~CheatPatterns(t) =>
                  ~is_cheater_accusation(t, m) /\ check'[id] # 3
             /\ messages[id].content = "cheating is bad" /\ ~m => check'[id] = 0
             /\ messages[id].content = "you are cheating" => check'[id] = 3]_vars

\* "cheating is bad" was handled without a mention and recorded, and "he
\* cheats", directed by its pronoun alone, was flagged by the third check.
C15_Witness ==
  \E a \in Ids, b \in Ids :
    /\ messages[a].content = "cheating is bad" /\ ~messages[a].mentions
    /\ check[a] = 0 /\ pc[a] = "done"
    /\ a \in IdsOf(Buffer(Key(a)))
    /\ messages[b].content = "he cheats"
    /\ ~CheatPatterns(Norm(b))
    /\ check[b] = 3 /\ verdict[b] = "DeleteCurrent"

\* the position of message id in its key's buffer, 0 when it is not there
PositionOf(id) ==
  IF \E i \in 1..Len(Buffer(Key(id))) : Buffer(Key(id))[i].id = id
  THEN CHOOSE i \in 1..Len(Buffer(Key(id))) : Buffer(Key(id))[i].id = id
  ELSE 0

\* every message a delete call of handler id has named or is still to name
AllTargets(id) ==
  UNION {{calls[id][c].ids[t] : t \in 1..Len(calls[id][c].ids)} : c \in 1..Len(calls[id])}
    \cup {todo[id][t] : t \in 1..Len(todo[id])}

\* C16. Under any interleaving of handlers: the list a handler hands to the
\* batch deletion is its key's buffer as it stands right after the handler's
\* own append and pruning, its own message last; the list is fixed from then
\* on; every target of the deletion is in that list, and a message recorded
\* behind the handler's own in the buffer, by another handler, is no target.
C16_TargetsAreTheSnapshot ==
  /\ [][\A id \in Ids :
          Handles(id) /\ verdict'[id] = "DeleteWindowBatch" =>
            /\ recent_items'[id] = BufferAfter(Key(id))
            /\ recent_items'[id] # <<>>
            /\ recent_items'[id][Len(recent_items'[id])].id = id
            /\ todo'[id] = [i \in 1..Len(recent_items'[id]) |-> recent_items'[id][i].id]]_vars
  /\ [][\A id \in Ids : pc[id] # "L326" => recent_items'[id] = recent_items[id]]_vars
  /\ [](\A id \in Ids :
          verdict[id] = "DeleteWindowBatch" =>
            /\ AllTargets(id) \subseteq IdsOf(recent_items[id])
            /\ \A o \in Ids :
                 SameSource(o, id) /\ PositionOf(id) > 0 /\ PositionOf(o) > PositionOf(id)
                   => o \notin AllTargets(id))

\* While a batch deletion is suspended in its fallback loop, after the bulk
\* call failed, another handler has recorded a further message of the same
\* author behind it.
C16_Witness ==
  \E id \in Ids, o \in Ids :
    /\ verdict[id] = "DeleteWindowBatch"
    /\ pc[id] = "L257"
    /\ Len(calls[id]) >= 1
    /\ SameSource(o, id)
    /\ PositionOf(id) > 0
    /\ PositionOf(o) > PositionOf(id)
    /\ o \notin IdsOf(recent_items[id])

\* the step in which a message arrives and its command, if any, is run
Delivers == Len(messages') = Len(messages) + 1

Arrived == messages'[Len(messages')]

\* the commands of the inboxes as a manager's message states them
SetWindowArg ==
  [c \in {"!setwindow 0", "!setwindow 601", "!setwindow 5", "!setwindow 9"} |->
     CASE c = "!setwindow 0" -> 0 [] c = "!setwindow 601" -> 601
       [] c = "!setwindow 5" -> 5 [] c = "!setwindow 9" -> 9]

SetWordsArg ==
  [c \in {"!setwords aa, bb", "!setwords you, cheater", "!setwords solo"} |->
     CASE c = "!setwords aa, bb" -> <<"aa", "bb">>
       [] c = "!setwords you, cheater" -> <<"you", "cheater">>
       [] c = "!setwords solo" -> <<"solo">>]

\* the entry a room has, or gets on its first reference
Effective(cfg, g) == IF g \in DOMAIN cfg THEN cfg[g] ELSE cfg[DefaultKey]

\* C17. When a message arrives whose command is rejected (setwindow below 1 or
\* above 600, setwords with fewer than 2 words, or a sender without the
\* permission), running the command leaves config as it is, set of rooms
\* included. An accepted setwindow or setwords changes only the named field of
\* the sender's room: the room's other field keeps the value it had or would
\* have got from the default, and every other entry is unchanged.
C17_RejectedCommandsChangeNothing ==
  [][Delivers =>
       LET m == Arrived
           g == Arrived.guild
       IN  /\ m.content \in DOMAIN SetWindowArg /\ SetWindowArg[m.content] \notin 1..600
             => config' = config
           /\ m.content \in DOMAIN SetWordsArg /\ Len(SetWordsArg[m.content]) < 2
             => config' = config
           /\ ~m.manager => config' = config
           /\ m.manager /\ m.content \in DOMAIN SetWindowArg
                /\ SetWindowArg[m.content] \in 1..600
             => /\ DOMAIN config' = DOMAIN config \cup {g}
                /\ config'[g].window = SetWindowArg[m.content]
                /\ config'[g].words = Effective(config, g).words
                /\ \A k \in DOMAIN config \ {g} : config'[k] = config[k]
           /\ m.manager /\ m.content \in DOMAIN SetWordsArg
                /\ Len(SetWordsArg[m.content]) >= 2
             => /\ DOMAIN config' = DOMAIN config \cup {g}
                /\ config'[g].words = SetWordsArg[m.content]
                /\ config'[g].window = Effective(config, g).window
                /\ \A k \in DOMAIN config \ {g} : config'[k] = config[k]]_vars

\* "!setwindow 601" has just arrived in a room whose window an accepted command
\* had set to 5, and the window is still 5.
C17_Witness ==
  /\ Len(messages) = 2
  /\ messages[1].content = "!setwindow 5"
  /\ messages[2].content = "!setwindow 601"
  /\ messages[2].manager
  /\ pc[2] = "L326"
  /\ "g1" \in DOMAIN config
  /\ config["g1"].window = 5
  /\ config["g1"].words = config[DefaultKey].words

\* C18. No step changes the _default entry, and a step changes the entry of a
\* room only if it is the room of the message that arrives (its command) or
\* of the message being handled (its first reference): a command issued in one
\* room changes the words and window of no other room.
C18_RoomsIsolated ==
  [][/\ config'[DefaultKey] = config[DefaultKey]
     /\ \A g \in DOMAIN config \ {DefaultKey} :
          /\ g \in DOMAIN config'
          /\ config'[g] # config[g] =>
               Delivers /\ Arrived.guild = g /\ Arrived.manager
     /\ \A g \in DOMAIN config' \ DOMAIN config :
          \/ Delivers /\ Arrived.guild = g
          \/ \E id \in Ids : Handles(id) /\ messages[id].guild = g]_vars

\* Two rooms hold settings of their own, set by commands, that differ from each
\* other and from the default, which is as it was at start.
C18_Witness ==
  /\ {"g1", "g2"} \subseteq DOMAIN config
  /\ config["g1"].words = <<"aa", "bb">>
  /\ config["g1"].window = config[DefaultKey].window
  /\ config["g2"].window = 9
  /\ config["g2"].words = config[DefaultKey].words
  /\ config[DefaultKey] = [words |-> <<"chunky", "cheater">>, window |-> 1]

\* the message is an accepted setwords command whose words normalize leaves as
\* they are
SetsWords(id) ==
  /\ Moderated(id)
  /\ messages[id].manager
  /\ messages[id].content \in DOMAIN SetWordsArg
  /\ Len(SetWordsArg[messages[id].content]) >= 2
  /\ \A i \in 1..Len(SetWordsArg[messages[id].content]) :
       normalize(SetWordsArg[messages[id].content][i]) = SetWordsArg[messages[id].content][i]

\* C20, as amended. The command of a message runs before its moderation, but
\* the handler is suspended in between. When an accepted setwords message is
\* moderated and no setwords command of the same room arrived after it, the
\* room's words are the ones it set and (window >= 0) the message is not
\* allowed: it is deleted alone by a single-message check, or by a batch
\* deletion that includes it because its own text contains every word.
C20_SetwordsMessageDeleted ==
  [][\A id \in Ids :
       /\ Handles(id)
       /\ SetsWords(id)
       /\ \A o \in Ids : o > id /\ messages[o].guild = messages[id].guild => ~SetsWords(o)
       => /\ RoomCfg(id).words = SetWordsArg[messages[id].content]
          /\ RoomCfg(id).window >= 0 =>
               \/ verdict'[id] = "DeleteCurrent"
               \/ /\ verdict'[id] = "DeleteWindowBatch"
                  /\ id \in IdsOf(recent_items'[id])
                  /\ contains_all_words(Norm(id), RoomCfg(id).words)]_vars

\* C20 as stated: an accepted setwords message is never allowed.
C20_Original ==
  [][\A id \in Ids :
       Handles(id) /\ SetsWords(id) =>
         verdict'[id] \in {"DeleteCurrent", "DeleteWindowBatch"}]_vars

\* "!setwords aa, bb" has set the room's words and was then batch-deleted by
\* itself, no single-message check matching it.
C20_Witness ==
  \E id \in Ids :
    /\ messages[id].content = "!setwords aa, bb"
    /\ messages[id].manager
    /\ check[id] = 0
    /\ verdict[id] = "DeleteWindowBatch"
    /\ IdsOf(recent_items[id]) = {id}
    /\ config[messages[id].guild].words = <<"aa", "bb">>
    /\ pc[id] = "done"

\* the entries recorded before message id that are still in the buffer when
\* the handler of id has appended its own and pruned
StillLive(id) == SubSeq(Aggregate(id).dq, 1, Len(Aggregate(id).dq) - 1)

\* C19. The return of a delete call changes no buffer. Hence, when a message
\* that passes the single-message checks is handled (window >= 0) and the
\* entries still live before it match an aggregate check by themselves, or an
\* earlier batch deletion's entries are all still live, the verdict is again a
\* batch deletion, over those entries and the new message.
C19_BatchLeavesBuffer ==
  /\ [][(\E id \in Ids : calls'[id] # calls[id]) => recent_msgs' = recent_msgs]_vars
  /\ [][\A id \in Ids :
          /\ Handles(id)
          /\ Moderated(id)
          /\ single_check(Norm(id), messages[id].mentions) = 0
          /\ RoomCfg(id).window >= 0
          /\ \/ /\ StillLive(id) # <<>>
                /\ aggregate_check(
                     Join([i \in 1..Len(StillLive(id)) |-> StillLive(id)[i].norm], " "),
                     \E i \in 1..Len(StillLive(id)) : StillLive(id)[i].had_mention,
                     RoomCfg(id).words)
             \/ \E b \in Ids :
                  /\ SameSource(b, id)
                  /\ verdict[b] = "DeleteWindowBatch"
                  /\ IdsOf(recent_items[b]) \subseteq IdsOf(StillLive(id))
          => /\ verdict'[id] = "DeleteWindowBatch"
             /\ IdsOf(StillLive(id)) \cup {id} = IdsOf(recent_items'[id])]_vars

\* "you" and "cheater" were batch-deleted by a successful bulk call; the same
\* author's "biatch", handled inside the window, which with "cheater" alone
\* would match nothing, got a batch deletion over all three.
C19_Witness ==
  /\ Len(messages) = 3
  /\ messages[1].content = "you"
  /\ messages[2].content = "cheater"
  /\ messages[3].content = "biatch"
  /\ SameSource(1, 2) /\ SameSource(2, 3)
  /\ verdict[2] = "DeleteWindowBatch"
  /\ calls[2] = <<Call("delete_messages", <<1, 2>>)>>
  /\ pc[2] = "done"
  /\ verdict[3] = "DeleteWindowBatch"
  /\ IdsOf(recent_items[3]) = {1, 2, 3}
  /\ ~aggregate_check("cheater biatch", FALSE, config["g1"].words)

====
